---------------------------- MODULE Spec2Model ----------------------------
(***************************************************************************)
(* Model of hue_breathing_demo.py: the Walabot acquisition server          *)
(* (WalaServer.run), the lamp control loop (breath_loop) and the           *)
(* coordinator (__main__), connected by a ZMQ REQ/REP socket pair and a    *)
(* multiprocessing.Event readiness flag.                                   *)
(*                                                                         *)
(* Energy readings are floats in the program; here they are naturals in    *)
(* units of 0.0001, so 0.0002 is 2 and 0.0008 is 8.  Wall-clock time is    *)
(* kept as half-second ticks elapsed since last_peak, saturated just above *)
(* the 13 s threshold (every larger value takes the same branches).        *)
(***************************************************************************)
EXTENDS Integers, Sequences, FiniteSets, TLC

(***************************************************************************)
(* Program constants                                                       *)
(***************************************************************************)
\* SAMPLES = 60: default samples collection window
SAMPLES == 60

\* Mutant: the pre-fill loop collects two samples only.
PrefillShort == SAMPLES - 58

\* for i in range(5): samples collected before the lamp control loop
PREFILL == 5

\* samples += 10 / samples -= 10
STEP == 10

\* if samples > 250: samples = 250
MAX_SAMPLES == 250

\* if samples < 10: samples = 10
MIN_SAMPLES == 10

\* hue = 43690 (blue), the initial hue and the base of the hue drift
HUE_BLUE == 43690

\* hue = 65000 (red)
HUE_RED == 65000

\* 1600 * int(time.time() - last_peak)
HUE_RATE == 1600

\* time.time() - last_peak > 13
PEAK_TIMEOUT == 13

\* max_enrg < 0.0002, in units of 0.0001
NO_BREATH == 2

\* if bri > 90: breath peak
PEAK_BRI == 90

\* int(195 * (...) + 60)
BRI_SPAN == 195
BRI_BASE == 60

\* bri = 255 if bri > 255 else bri
BRI_MAX == 255

\* bri += int((hue - 43690) / 42)
HUE_BOOST_DIV == 42

\* if abs(bri - prev_bri) > 2
BRI_DELTA == 2

\* hue_bridge.set_light(HUE_LAMP, 'bri', 150) / ('sat', 250)
INIT_BRI == 150
INIT_SAT == 250

\* key codes: ord('q'), space, special-key prefix, up, down
KEY_Q == 113
KEY_SPACE == 32
KEY_SPECIAL == 224
KEY_UP == 72
KEY_DOWN == 80

(***************************************************************************)
(* Bounds of the model                                                     *)
(***************************************************************************)
\* Total number of 'energy' requests the client may send in one run when the
\* sensor's readings vary.
MaxRequests == 8

\* The same when the sensor's reading is steady: long enough for the window
\* capacity to reach its lower limit and for the log to fill and overflow.
MaxSteadyRequests == 14

\* The same in the runs checked for progress under fair scheduling.
MaxLiveRequests == 6

\* 'energy' requests explored from a state deep in a run (DeepInit).
MaxDeepRequests == 2

\* Length of the energy log in the deep states, where the capacity allows it.
DeepLen == 30
MaxCalcRequests == 2

\* The clock is read in half seconds.
TicksPerSecond == 2

\* Time-since-peak saturates here (one second above PEAK_TIMEOUT), in ticks.
SinceCap == (PEAK_TIMEOUT + 1) * TicksPerSecond

\* Readings the sensor can return (units of 0.0001).
EnergyValues == {0, 4}

\* What the sensor sees during one run: varying readings, or a steady one.
SensorProfiles == {EnergyValues, {4}}

\* Ticks that can elapse between two readings of the clock (0 and 7.5
\* seconds).
TimeSteps == {0, 15}

\* Key codes getch() can return; -1 is "no key pressed", 120 is 'x'.
Keys == {-1, KEY_Q, KEY_SPACE, KEY_SPECIAL, 120}

\* Second byte of a special key; 75 is the left arrow, -1 is "no key".
SpecialKeys == {KEY_UP, KEY_DOWN, 75, -1}

\* The local variable `energy` of WalaServer.run before its first assignment.
Unbound == -1

NoReply == [kind |-> "none", val |-> 0]

VARIABLES
  \* WalaServer process
  spc,        \* position of WalaServer.run
  setup,      \* startup calls completed so far
  ready,      \* multiprocessing.Event
  message,    \* local `message`
  energy,     \* local `energy` (Unbound before the first capture)
  lastReading,\* what the latest GetImageEnergy call returned (Unbound: none yet)
  \* ZMQ REQ/REP channel
  req,        \* request in flight: "none", "energy", "stop"
  rep,        \* reply in flight
  \* client: __main__ and breath_loop
  cpc,        \* position of the client
  walabot_is_ready, \* result of ready.wait(10.0): "pending", "yes", "no"
  key,        \* what the latest first getch() returned (-1: no key)
  key2,       \* what the getch() after a 224 prefix returned (-1: none)
  exitCode,   \* -1 while running, else the sys.exit code
  energy_log, \* rolling energy log
  samples,    \* window capacity
  active,     \* loop flag
  prev_bri,   \* last brightness sent
  hue,        \* tracked hue
  since,      \* ticks since last_peak
  lamp,       \* state of the lamp at the bridge
  writes,     \* set_light calls of the latest loop iteration, in order
  \* environment and history
  readings,   \* the readings GetImageEnergy can return in this run
  limit,      \* bound of the model on the 'energy' requests of this run
  received,   \* every sample the client received, in arrival order
  log_ids,    \* arrival number (index in received) of each entry of energy_log
  nSent,      \* requests sent by the client
  nGot,       \* replies received by the client
  sRecv,      \* requests received by the server
  sRepl       \* replies sent by the server

srvVars == <<spc, setup, ready, message, energy, lastReading>>
chanVars == <<req, rep>>
loopVars == <<energy_log, samples, active, prev_bri, hue, since, lamp, writes, key, key2>>
cliVars == <<cpc, walabot_is_ready, exitCode, energy_log, samples, active,
            prev_bri, hue, since, lamp, writes, key, key2>>
histVars == <<readings, limit, received, log_ids, nSent, nGot, sRecv, sRepl>>
vars == <<spc, setup, ready, message, energy, lastReading, req, rep,
          cpc, walabot_is_ready, exitCode,
          energy_log, samples, active, prev_bri, hue, since, lamp, writes, key, key2,
          readings, limit, received, log_ids, nSent, nGot, sRecv, sRepl>>

(***************************************************************************)
(* Pure helpers                                                            *)
(***************************************************************************)
Min(a, b) == IF a < b THEN a ELSE b

Abs(a) == IF a < 0 THEN -a ELSE a

\* Python slice log[-n:] for n >= 1
LastN(log, n) == IF Len(log) <= n THEN log ELSE SubSeq(log, Len(log) - n + 1, Len(log))

RECURSIVE SeqSum(_)
SeqSum(s) == IF s = <<>> THEN 0 ELSE Head(s) + SeqSum(Tail(s))

RECURSIVE SeqMax(_)
SeqMax(s) == IF Len(s) = 1 THEN Head(s)
             ELSE LET m == SeqMax(Tail(s)) IN IF Head(s) > m THEN Head(s) ELSE m

(***************************************************************************)
(* breath_loop: the rolling energy log (lines 202-210)                     *)
(***************************************************************************)
\* if len(energy_log) <= samples: energy_log.append(enrg)
LogAppend(log, smp, e) == IF Len(log) <= smp THEN Append(log, e) ELSE log

\* Mutant: pop() without the index removes the newest entry.
LogPopLast(log, smp) == IF Len(log) = smp + 1 THEN SubSeq(log, 1, Len(log) - 1) ELSE log

\* if len(energy_log) == samples + 1: energy_log.pop(0)
LogPop(log, smp) == IF Len(log) = smp + 1 THEN Tail(log) ELSE log

\* if len(energy_log) > samples: energy_log = energy_log[-samples:]
LogTruncate(log, smp) == IF Len(log) > smp THEN LastN(log, smp) ELSE log

\* Mutant: the overflow guard of lines 209-210 is missing.
UpdateLogNoTruncate(log, smp, e) == LogPop(LogAppend(log, smp, e), smp)

UpdateLog(log, smp, e) == LogTruncate(LogPop(LogAppend(log, smp, e), smp), smp)

(***************************************************************************)
(* breath_loop: smoothing, normalisation, hue (lines 212-243)              *)
(***************************************************************************)
\* 3 * enrg, where enrg = sum(energy_log[-3:]) / 3
Sum3(log) == SeqSum(LastN(log, 3))

\* Mutant: a maximum of 0 is raised to 0.0001 before it is divided by.
MaxEnrgGuarded(log) == IF SeqMax(log) = 0 THEN 1 ELSE SeqMax(log)

\* max_enrg = max(energy_log); min_enrg = 0
MaxEnrg(log) == SeqMax(log)

\* (enrg - min_enrg) / (max_enrg - min_enrg) raises ZeroDivisionError
DivisionFails(log) == MaxEnrg(log) = 0

\* a / b rounded to the nearest integer, halves upwards (a >= 0, b > 0)
Nearest(a, b) == (2 * a + b) \div (2 * b)

\* Mutant: the brightness is rounded to nearest instead of truncated.
BrightnessRounded(s3, mx) == Nearest(BRI_SPAN * s3, 3 * mx) + BRI_BASE

\* bri = int(195 * ((enrg - 0) / (max_enrg - 0)) + 60); int() truncates, and
\* the operand is never negative.  Exact arithmetic: 195 * (s3/3) / mx + 60.
Brightness(s3, mx) == (BRI_SPAN * s3) \div (3 * mx) + BRI_BASE

\* if bri > 90: last_peak = time.time(); `now` is ticks since the old peak
SincePeak(bri, now) == IF bri > PEAK_BRI THEN 0 ELSE now

\* Mutant: the "no breathing detected" test of line 232 is missing.
HueNoThreshold(sincePeak, mx) ==
  IF sincePeak > PEAK_TIMEOUT * TicksPerSecond
  THEN HUE_RED
  ELSE HUE_BLUE + HUE_RATE * (sincePeak \div TicksPerSecond)

\* lines 231-238
Hue(sincePeak, mx) ==
  LET h == IF sincePeak > PEAK_TIMEOUT * TicksPerSecond \/ mx < NO_BREATH
           THEN HUE_RED
           ELSE HUE_BLUE + HUE_RATE * (sincePeak \div TicksPerSecond)
  IN IF h > HUE_RED THEN HUE_RED ELSE h

\* Mutant: the limit of 255 is missing.
BoostNoLimit(bri, h) == bri + (h - HUE_BLUE) \div HUE_BOOST_DIV

\* bri += int((hue - 43690) / 42); bri = 255 if bri > 255 else bri
Boost(bri, h) ==
  LET b == bri + (h - HUE_BLUE) \div HUE_BOOST_DIV
  IN IF b > BRI_MAX THEN BRI_MAX ELSE b

\* Mutant: the lamp is commanded whenever the brightness differs at all.
LampChangedAtAll(bri, prev) == bri # prev

\* if abs(bri - prev_bri) > 2
LampChanged(bri, prev) == Abs(bri - prev) > BRI_DELTA

(***************************************************************************)
(* breath_loop: key handling (lines 266-297)                               *)
(***************************************************************************)
\* if key == ord('q'): active = False
KeyActive(act, k) == IF k = KEY_Q THEN FALSE ELSE act

\* Mutant: the upper limit is not enforced.
SamplesUpNoLimit(smp) == smp + STEP

\* 'up': samples += 10, at most 250
SamplesUp(smp) == IF smp + STEP > MAX_SAMPLES THEN MAX_SAMPLES ELSE smp + STEP

\* 'down': samples -= 10, at least 10
SamplesDown(smp) == IF smp - STEP < MIN_SAMPLES THEN MIN_SAMPLES ELSE smp - STEP

\* k: first getch(); k2: the getch() that follows the 224 prefix
KeySamples(smp, k, k2) ==
  LET s1 == IF k = KEY_SPACE THEN SAMPLES ELSE smp
  IN IF k = KEY_SPECIAL
     THEN LET s2 == IF k2 = KEY_UP THEN SamplesUp(s1) ELSE s1
          IN IF k2 = KEY_DOWN THEN SamplesDown(s2) ELSE s2
     ELSE s1

(***************************************************************************)
(* Initial state: __main__ has created the Event, started the server       *)
(* process and connected its REQ socket (lines 303-311).                   *)
(***************************************************************************)
\* Everything but the model's choice of sensor profile and run length.
Started ==
  /\ spc = "init"
  /\ setup = {}
  /\ ready = FALSE
  /\ message = ""
  /\ energy = Unbound
  /\ lastReading = Unbound
  /\ req = "none"
  /\ rep = NoReply
  /\ cpc = "wait_ready"
  /\ walabot_is_ready = "pending"
  /\ key = -1
  /\ key2 = -1
  /\ exitCode = -1
  /\ energy_log = <<>>
  /\ samples = SAMPLES
  /\ active = FALSE
  /\ prev_bri = 0
  /\ hue = HUE_BLUE
  /\ since = 0
  /\ lamp = [on |-> FALSE, bri |-> 0, hue |-> 0, sat |-> 0]
  /\ writes = <<>>
  /\ received = <<>>
  /\ log_ids = <<>>
  /\ nSent = 0
  /\ nGot = 0
  /\ sRecv = 0
  /\ sRepl = 0

Init ==
  /\ Started
  /\ readings \in SensorProfiles
  /\ limit = IF readings = EnergyValues THEN MaxRequests ELSE MaxSteadyRequests

(***************************************************************************)
(* WalaServer.run                                                          *)
(***************************************************************************)
\* Mutant: the WalabotError is swallowed and run goes on.
ServerConnectNoReturn ==
  /\ spc = "init"
  /\ \E found \in BOOLEAN :
       /\ spc' = "connected"
       /\ setup' = IF found THEN setup \cup {"connect"} ELSE setup
  /\ UNCHANGED <<ready, message, energy, lastReading, req, rep>>
  /\ UNCHANGED cliVars
  /\ UNCHANGED histVars

\* lines 74-87: Init, Initialize, ConnectAny; a WalabotError makes run return
ServerConnect ==
  /\ spc = "init"
  /\ \E found \in BOOLEAN :
       IF found
       THEN spc' = "connected" /\ setup' = setup \cup {"connect"}
       ELSE spc' = "failed" /\ setup' = setup
  /\ UNCHANGED <<ready, message, energy, lastReading, req, rep>>
  /\ UNCHANGED cliVars
  /\ UNCHANGED histVars

\* lines 88-97: SetProfile, SetArenaR/Phi/Theta, SetDynamicImageFilter
ServerConfigure ==
  /\ spc = "connected"
  /\ spc' = "configured"
  /\ setup' = setup \cup {"profile", "arena", "filter"}
  /\ UNCHANGED <<ready, message, energy, lastReading, req, rep>>
  /\ UNCHANGED cliVars
  /\ UNCHANGED histVars

\* lines 100-101: Start, StartCalibration
ServerStart ==
  /\ spc = "configured"
  /\ spc' = "started"
  /\ setup' = setup \cup {"start", "calibration"}
  /\ UNCHANGED <<ready, message, energy, lastReading, req, rep>>
  /\ UNCHANGED cliVars
  /\ UNCHANGED histVars

\* lines 104-107: REP socket bound to tcp://*:5556
ServerBind ==
  /\ spc = "started"
  /\ spc' = "bound"
  /\ setup' = setup \cup {"bind"}
  /\ UNCHANGED <<ready, message, energy, lastReading, req, rep>>
  /\ UNCHANGED cliVars
  /\ UNCHANGED histVars

\* lines 110-112: self.ready.set(); capture = True; message = ''
ServerReady ==
  /\ spc = "bound"
  /\ spc' = "poll"
  /\ ready' = TRUE
  /\ message' = ""
  /\ UNCHANGED <<setup, energy, lastReading, req, rep>>
  /\ UNCHANGED cliVars
  /\ UNCHANGED histVars

\* lines 116-126, 129-136 with no message: recv_string(NOBLOCK) raises Again
\* (nothing sent, or the request has not arrived yet), so Trigger and
\* GetImageEnergy run; message is '' and neither branch of the dispatch acts.
ServerCapture ==
  /\ spc = "poll"
  /\ \E e \in readings : energy' = e /\ lastReading' = e
  /\ message' = ""
  /\ UNCHANGED <<spc, setup, ready, req, rep>>
  /\ UNCHANGED cliVars
  /\ UNCHANGED histVars

\* line 118: recv_string(NOBLOCK) returns the pending request; no capture
ServerRecv ==
  /\ spc = "poll"
  /\ req # "none"
  /\ message' = req
  /\ req' = "none"
  /\ spc' = "dispatch"
  /\ sRecv' = sRecv + 1
  /\ UNCHANGED <<setup, ready, energy, lastReading, rep>>
  /\ UNCHANGED cliVars
  /\ UNCHANGED <<readings, limit, received, log_ids, nSent, nGot, sRepl>>

\* lines 129-136: 'stop' clears capture and leaves the loop; 'energy' sends
\* the local `energy`, which raises UnboundLocalError if no capture has
\* assigned it; anything else is dropped without a reply, which leaves the
\* REP socket owing one when the loop goes round.
ServerDispatch ==
  /\ spc = "dispatch"
  /\ IF message = "stop"
     THEN spc' = "leaving" /\ rep' = rep /\ sRepl' = sRepl
     ELSE IF message = "energy"
     THEN IF energy = Unbound
          THEN spc' = "crashed" /\ rep' = rep /\ sRepl' = sRepl
          ELSE /\ spc' = "poll"
               /\ rep' = [kind |-> "energy", val |-> energy]
               /\ sRepl' = sRepl + 1
     ELSE spc' = "owing" /\ rep' = rep /\ sRepl' = sRepl
  /\ message' = ""
  /\ UNCHANGED <<setup, ready, energy, lastReading, req>>
  /\ UNCHANGED cliVars
  /\ UNCHANGED <<readings, limit, received, log_ids, nSent, nGot, sRecv>>

\* Mutant: run returns without the 'stopped' reply.
ServerStoppedNoReply ==
  /\ spc = "leaving"
  /\ spc' = "done"
  /\ UNCHANGED <<setup, ready, message, energy, lastReading, req, rep>>
  /\ UNCHANGED cliVars
  /\ UNCHANGED histVars

\* line 138: self.socket.send_string('stopped'); run returns
ServerStopped ==
  /\ spc = "leaving"
  /\ spc' = "done"
  /\ rep' = [kind |-> "stopped", val |-> 0]
  /\ sRepl' = sRepl + 1
  /\ UNCHANGED <<setup, ready, message, energy, lastReading, req>>
  /\ UNCHANGED cliVars
  /\ UNCHANGED <<readings, limit, received, log_ids, nSent, nGot, sRecv>>

ServerNext ==
  \/ ServerConnect
  \/ ServerConfigure
  \/ ServerStart
  \/ ServerBind
  \/ ServerReady
  \/ ServerCapture
  \/ ServerRecv
  \/ ServerDispatch
  \/ ServerStopped

(***************************************************************************)
(* __main__ and breath_loop (the client)                                   *)
(***************************************************************************)
\* The server process has ended (run returned, raised, or was terminated).
ServerEnded == spc \in {"failed", "crashed", "done", "killed"}

\* lines 314-324: ready.wait(10.0) returns True
ClientReady ==
  /\ cpc = "wait_ready"
  /\ ready
  /\ cpc' = "bootstrap"
  /\ walabot_is_ready' = "yes"
  /\ UNCHANGED <<exitCode>>
  /\ UNCHANGED loopVars
  /\ UNCHANGED srvVars
  /\ UNCHANGED chanVars
  /\ UNCHANGED histVars

\* Mutant: the timeout branch does not exit and the monitor starts anyway.
ClientTimeoutNoExit ==
  /\ cpc = "wait_ready"
  /\ ~ready
  /\ cpc' = "bootstrap"
  /\ walabot_is_ready' = "no"
  /\ UNCHANGED exitCode
  /\ UNCHANGED loopVars
  /\ UNCHANGED srvVars
  /\ UNCHANGED chanVars
  /\ UNCHANGED histVars

\* lines 314, 327-329: the 10 s pass with the flag unset; sys.exit(1)
ClientTimeout ==
  /\ cpc = "wait_ready"
  /\ ~ready
  /\ cpc' = "exit"
  /\ walabot_is_ready' = "no"
  /\ exitCode' = 1
  /\ UNCHANGED loopVars
  /\ UNCHANGED srvVars
  /\ UNCHANGED chanVars
  /\ UNCHANGED histVars

\* lines 153-184: bridge connection (with the pairing retry), lamp on,
\* initial brightness, hue and saturation
ClientBootstrap ==
  /\ cpc = "bootstrap"
  /\ cpc' = "prefill_send"
  /\ energy_log' = <<>>
  /\ log_ids' = <<>>
  /\ prev_bri' = 0
  /\ hue' = HUE_BLUE
  /\ lamp' = [on |-> TRUE, bri |-> INIT_BRI, hue |-> HUE_BLUE, sat |-> INIT_SAT]
  /\ writes' = << <<"on", 1>>, <<"bri", INIT_BRI>>, <<"hue", HUE_BLUE>>, <<"sat", INIT_SAT>> >>
  /\ UNCHANGED <<walabot_is_ready, exitCode, samples, active, since, key, key2>>
  /\ UNCHANGED srvVars
  /\ UNCHANGED chanVars
  /\ UNCHANGED <<readings, limit, received, nSent, nGot, sRecv, sRepl>>

\* line 188: socket.send_string('energy') in the pre-fill loop
ClientPrefillSend ==
  /\ cpc = "prefill_send"
  /\ nSent < limit
  /\ req' = "energy"
  /\ nSent' = nSent + 1
  /\ cpc' = "prefill_recv"
  /\ UNCHANGED <<walabot_is_ready, exitCode, rep>>
  /\ UNCHANGED loopVars
  /\ UNCHANGED srvVars
  /\ UNCHANGED <<readings, limit, received, log_ids, nGot, sRecv, sRepl>>

\* lines 189-194: energy_log.append(socket.recv_pyobj()); after the fifth,
\* last_peak = time.time(), active = True, samples = SAMPLES
ClientPrefillRecv ==
  /\ cpc = "prefill_recv"
  /\ rep.kind # "none"
  /\ rep' = NoReply
  /\ nGot' = nGot + 1
  /\ received' = Append(received, rep.val)
  /\ energy_log' = Append(energy_log, rep.val)
  /\ log_ids' = Append(log_ids, Len(received) + 1)
  /\ IF Len(energy_log) + 1 = PREFILL
     THEN cpc' = "loop_top" /\ since' = 0 /\ active' = TRUE /\ samples' = SAMPLES
     ELSE cpc' = "prefill_send" /\ UNCHANGED <<since, active, samples>>
  /\ UNCHANGED <<walabot_is_ready, exitCode, prev_bri, hue, lamp, writes, key, key2, req>>
  /\ UNCHANGED srvVars
  /\ UNCHANGED <<readings, limit, nSent, sRecv, sRepl>>

\* lines 197-199: while active: socket.send_string('energy')
ClientRequest ==
  /\ cpc = "loop_top"
  /\ active
  /\ nSent < limit
  /\ req' = "energy"
  /\ nSent' = nSent + 1
  /\ cpc' = "loop_recv"
  /\ UNCHANGED <<walabot_is_ready, exitCode, rep>>
  /\ UNCHANGED loopVars
  /\ UNCHANGED srvVars
  /\ UNCHANGED <<readings, limit, received, log_ids, nGot, sRecv, sRepl>>

\* lines 200-297: one pass of the lamp control loop from recv_pyobj on.
\* dt: ticks elapsed since the clock was last read; k, k2: what the two
\* getch() calls return (the second is made only after a 224 prefix).  A ZeroDivisionError at line 220 ends breath_loop
\* before any lamp command or key is handled.
ClientIterate ==
  /\ cpc = "loop_recv"
  /\ rep.kind # "none"
  /\ \E dt \in TimeSteps, k \in Keys :
     \E k2 \in IF k = KEY_SPECIAL THEN SpecialKeys ELSE {-1} :
       LET log  == UpdateLog(energy_log, samples, rep.val)
           mx   == MaxEnrg(log)
           now  == Min(since + dt, SinceCap)
           bri0 == Brightness(Sum3(log), mx)
           sp   == SincePeak(bri0, now)
           h    == Hue(sp, mx)
           bri  == Boost(bri0, h)
       IN /\ energy_log' = log
          /\ log_ids' = UpdateLog(log_ids, samples, Len(received) + 1)
          /\ IF DivisionFails(log)
             THEN /\ cpc' = "crashed"
                  /\ writes' = <<>>
                  /\ UNCHANGED <<samples, active, prev_bri, hue, since, lamp, key, key2>>
             ELSE /\ cpc' = "loop_top"
                  /\ since' = sp
                  /\ hue' = h
                  /\ IF LampChanged(bri, prev_bri)
                     THEN /\ lamp' = [lamp EXCEPT !.bri = bri, !.hue = h]
                          /\ prev_bri' = bri
                          /\ writes' = << <<"bri", bri>>, <<"hue", h>> >>
                     ELSE /\ writes' = <<>>
                          /\ UNCHANGED <<lamp, prev_bri>>
                  /\ key' = k
                  /\ key2' = k2
                  /\ active' = KeyActive(active, k)
                  /\ samples' = KeySamples(samples, k, k2)
  /\ rep' = NoReply
  /\ nGot' = nGot + 1
  /\ received' = Append(received, rep.val)
  /\ UNCHANGED <<walabot_is_ready, exitCode, req>>
  /\ UNCHANGED srvVars
  /\ UNCHANGED <<readings, limit, nSent, sRecv, sRepl>>

\* line 332: the loop has ended; socket.send_string('stop')
ClientStop ==
  /\ cpc = "loop_top"
  /\ ~active
  /\ req' = "stop"
  /\ nSent' = nSent + 1
  /\ cpc' = "stop_recv"
  /\ UNCHANGED <<walabot_is_ready, exitCode, rep>>
  /\ UNCHANGED loopVars
  /\ UNCHANGED srvVars
  /\ UNCHANGED <<readings, limit, received, log_ids, nGot, sRecv, sRepl>>

\* lines 333-341: stopped = socket.recv_string() blocks until a reply comes;
\* 'stopped' leads to wv.join(), anything else to wv.terminate(), sys.exit(1)
ClientStopRecv ==
  /\ cpc = "stop_recv"
  /\ rep.kind # "none"
  /\ rep' = NoReply
  /\ nGot' = nGot + 1
  /\ IF rep.kind = "stopped"
     THEN cpc' = "join" /\ UNCHANGED <<exitCode, spc>>
     ELSE cpc' = "exit" /\ exitCode' = 1 /\ spc' = "killed"
  /\ UNCHANGED walabot_is_ready
  /\ UNCHANGED loopVars
  /\ UNCHANGED <<setup, ready, message, energy, lastReading, req>>
  /\ UNCHANGED <<readings, limit, received, log_ids, nSent, sRecv, sRepl>>

\* lines 337-343: wv.join() returns once the server process has ended;
\* print("Done!"); sys.exit(0)
ClientJoin ==
  /\ cpc = "join"
  /\ ServerEnded
  /\ cpc' = "exit"
  /\ exitCode' = 0
  /\ UNCHANGED walabot_is_ready
  /\ UNCHANGED loopVars
  /\ UNCHANGED srvVars
  /\ UNCHANGED chanVars
  /\ UNCHANGED histVars

ClientNext ==
  \/ ClientReady
  \/ ClientTimeout
  \/ ClientBootstrap
  \/ ClientPrefillSend
  \/ ClientPrefillRecv
  \/ ClientRequest
  \/ ClientIterate
  \/ ClientStop
  \/ ClientStopRecv
  \/ ClientJoin

Next == ServerNext \/ ClientNext

Spec == Init /\ [][Next]_vars

(***************************************************************************)
(* Scheduling.  Both processes keep running: a request that has reached    *)
(* the REP socket is returned by the next recv_string(NOBLOCK), the server *)
(* goes on to dispatch it and to send 'stopped', and the client returns    *)
(* from recv_string and from join once they can.                           *)
(***************************************************************************)
LiveInit ==
  /\ Started
  /\ readings = EnergyValues
  /\ limit = MaxLiveRequests

FairSpec ==
  /\ LiveInit
  /\ [][Next]_vars
  /\ WF_vars(ServerRecv)
  /\ WF_vars(ServerDispatch)
  /\ WF_vars(ServerStopped)
  /\ WF_vars(ClientStopRecv)
  /\ WF_vars(ClientJoin)

(***************************************************************************)
(* The service hangs: WalabotAPI.Trigger() (line 123) never returns, so    *)
(* the server neither polls nor replies again.                             *)
(***************************************************************************)
ServerHang ==
  /\ spc = "poll"
  /\ spc' = "hung"
  /\ UNCHANGED <<setup, ready, message, energy, lastReading, req, rep>>
  /\ UNCHANGED cliVars
  /\ UNCHANGED histVars

HangNext == Next \/ ServerHang

HangSpec == Init /\ [][HangNext]_vars

(***************************************************************************)
(* Requests from elsewhere.  The REP socket is bound to tcp://*:5556       *)
(* (line 106), so a peer other than breath_loop can connect and send a     *)
(* request whose content is neither 'energy' nor 'stop'.  A REP socket     *)
(* alternates recv and send: once it has returned a request, recv fails    *)
(* with ZMQError (EFSM) until a reply has been sent, and the handler of    *)
(* line 121 catches zmq.error.Again only.                                  *)
(***************************************************************************)
\* Contents of a request that is neither 'energy' nor 'stop'.
OtherMessages == {"", "status"}

\* line 118: recv_string(NOBLOCK) returns a request of another peer
ServerRecvOther ==
  /\ spc = "poll"
  /\ \E m \in OtherMessages : message' = m
  /\ spc' = "dispatch"
  /\ UNCHANGED <<setup, ready, energy, lastReading, req, rep>>
  /\ UNCHANGED cliVars
  /\ UNCHANGED histVars

\* line 118 on a socket that owes a reply: recv_string raises ZMQError,
\* which is not caught, and run ends
ServerRecvOwing ==
  /\ spc = "owing"
  /\ spc' = "crashed"
  /\ UNCHANGED <<setup, ready, message, energy, lastReading, req, rep>>
  /\ UNCHANGED cliVars
  /\ UNCHANGED histVars

OtherNext == Next \/ ServerRecvOther \/ ServerRecvOwing

OtherSpec == LiveInit /\ [][OtherNext]_vars

(***************************************************************************)
(* States deep in a run, which the bounded runs from Init do not reach:    *)
(* the sensor's reading is steady at 4, the window capacity was brought to *)
(* c by 'up' or 'down' keys (at most 19 of them) in the first passes of    *)
(* the loop, no key was pressed after that, and DeepLen samples have been  *)
(* received.  The log then holds the newest min(c, DeepLen) of them, every *)
(* brightness computed was 255, and only the first pass wrote to the lamp. *)
(***************************************************************************)
AllSetup == {"connect", "profile", "arena", "filter", "start", "calibration", "bind"}

Capacities == {c \in MIN_SAMPLES..MAX_SAMPLES : c % STEP = 0}

DeepInit ==
  \E c \in Capacities :
    LET n == Min(c, DeepLen) IN
    /\ spc = "poll"
    /\ setup = AllSetup
    /\ ready = TRUE
    /\ message = ""
    /\ energy = 4
    /\ lastReading = 4
    /\ req = "none"
    /\ rep = NoReply
    /\ cpc = "loop_top"
    /\ walabot_is_ready = "yes"
    /\ key = -1
    /\ key2 = -1
    /\ exitCode = -1
    /\ energy_log = [i \in 1..n |-> 4]
    /\ samples = c
    /\ active = TRUE
    /\ prev_bri = BRI_MAX
    /\ hue = HUE_BLUE
    /\ since = 0
    /\ lamp = [on |-> TRUE, bri |-> BRI_MAX, hue |-> HUE_BLUE, sat |-> INIT_SAT]
    /\ writes = <<>>
    /\ readings = {4}
    /\ limit = DeepLen + MaxDeepRequests
    /\ received = [i \in 1..DeepLen |-> 4]
    /\ log_ids = [i \in 1..n |-> DeepLen - n + i]
    /\ nSent = DeepLen
    /\ nGot = DeepLen
    /\ sRecv = DeepLen
    /\ sRepl = DeepLen

DeepSpec == (Init \/ DeepInit) /\ [][Next]_vars

(***************************************************************************)
(* Loop entry with mixed readings.  The lamp control loop has just been    *)
(* entered (line 197) after a pre-fill of five readings of one of four     *)
(* sensor profiles: no breathing (0 and 0.0001, a maximum under the 0.0002 *)
(* threshold), shallow (0.0001 and 0.0007), deep (0.0004 and 0.0008) and   *)
(* nearly steady (0.0032 and 0.0033, brightness changes of 2 and less).    *)
(* From here on only the actions of the two loops and of the stop          *)
(* handshake are enabled.                                                  *)
(***************************************************************************)
CalcProfiles == {{0, 1}, {1, 7}, {4, 8}, {32, 33}}

CalcInit ==
  \E p \in CalcProfiles : \E w \in [1..PREFILL -> p] :
    /\ spc = "poll"
    /\ setup = AllSetup
    /\ ready = TRUE
    /\ message = ""
    /\ energy = w[PREFILL]
    /\ lastReading = w[PREFILL]
    /\ req = "none"
    /\ rep = NoReply
    /\ cpc = "loop_top"
    /\ walabot_is_ready = "yes"
    /\ key = -1
    /\ key2 = -1
    /\ exitCode = -1
    /\ energy_log = w
    /\ samples = SAMPLES
    /\ active = TRUE
    /\ prev_bri = 0
    /\ hue = HUE_BLUE
    /\ since = 0
    /\ lamp = [on |-> TRUE, bri |-> INIT_BRI, hue |-> HUE_BLUE, sat |-> INIT_SAT]
    /\ writes = << <<"on", 1>>, <<"bri", INIT_BRI>>, <<"hue", HUE_BLUE>>, <<"sat", INIT_SAT>> >>
    /\ readings = p
    /\ limit = PREFILL + MaxCalcRequests
    /\ received = w
    /\ log_ids = [i \in 1..PREFILL |-> i]
    /\ nSent = PREFILL
    /\ nGot = PREFILL
    /\ sRecv = PREFILL
    /\ sRepl = PREFILL

LoopNext ==
  \/ ServerCapture
  \/ ServerRecv
  \/ ServerDispatch
  \/ ServerStopped
  \/ ClientRequest
  \/ ClientIterate
  \/ ClientStop
  \/ ClientStopRecv
  \/ ClientJoin

CalcSpec == CalcInit /\ [][LoopNext]_vars

(***************************************************************************)
(* Claims                                                                  *)
(***************************************************************************)
\* The client is blocked in a recv with its request unanswered.
ClientWaiting == cpc \in {"prefill_recv", "loop_recv", "stop_recv"}

\* The server is between receiving a request and answering it.
ServerHandling == spc \in {"dispatch", "leaving"}

\* C1: requests and replies strictly alternate on the channel: the client
\* never sends a request while an earlier one of its own is unanswered, the
\* server never replies when no request is outstanding, and once the server
\* is done handling a request it has sent exactly one reply for each
\* 'energy' or 'stop' request it received.
C1_StrictAlternation ==
  /\ nSent - nGot \in {0, 1}
  /\ (nSent - nGot = 1) <=> ClientWaiting
  /\ ~(req # "none" /\ rep.kind # "none")
  /\ sRepl <= sRecv
  /\ sRecv <= nSent
  /\ ~ServerHandling => sRepl = sRecv

\* C2: when the server handles an 'energy' request, it sends a reply whose
\* value is the reading of its most recent capture, and no capture happens
\* between receiving the request and sending the reply.
C2_ReplyIsLastCapture ==
  [][(spc = "dispatch" /\ message = "energy")
       => /\ rep'.kind = "energy"
          /\ rep'.val = lastReading
          /\ lastReading \in readings
          /\ lastReading' = lastReading]_vars

\* C3: on 'stop' the server captures no more, sends the single reply
\* 'stopped' and terminates; the client, on 'stopped', joins the server and
\* exits with code 0; with both processes scheduled fairly, a client that
\* has sent 'stop' eventually exits with code 0.
C3_StopHandshake ==
  /\ [][(spc = "dispatch" /\ message = "stop")
          => (spc' = "leaving" /\ rep' = rep /\ lastReading' = lastReading)]_vars
  /\ [][spc = "leaving"
          => /\ spc' = "done"
             /\ rep' = [kind |-> "stopped", val |-> 0]
             /\ sRepl' = sRepl + 1
             /\ lastReading' = lastReading]_vars
  /\ [][spc = "done"
          => (spc' = "done" /\ sRepl' = sRepl /\ lastReading' = lastReading)]_vars
  /\ [][(cpc = "stop_recv" /\ rep.kind = "stopped" /\ cpc' # cpc) => cpc' = "join"]_vars
  /\ [][(cpc = "join" /\ cpc' # cpc) => (spc = "done" /\ cpc' = "exit" /\ exitCode' = 0)]_vars
  /\ (cpc = "stop_recv") ~> (cpc = "exit" /\ exitCode = 0)

\* C3 witness: the handshake has run to its end.
C3_Witness == cpc = "exit" /\ exitCode = 0 /\ spc = "done" /\ sRepl = sRecv

\* C4: a client that has sent 'stop' to a service that hangs does not wait
\* for the reply for ever: it can still take a step (terminate the service
\* and exit with code 1).
C4_BoundedStopWait ==
  (cpc = "stop_recv" /\ spc = "hung" /\ rep.kind = "none") => ENABLED ClientNext

\* C5: if the readiness wait times out, the client exits with code 1 and has
\* sent no request at all; and the client has sent an 'energy' request only
\* if it saw the readiness flag set.
C5_ReadinessGate ==
  /\ walabot_is_ready = "no"
       => (cpc = "exit" /\ exitCode = 1 /\ nSent = 0 /\ received = <<>>)
  /\ nSent > 0 => (walabot_is_ready = "yes" /\ ready)

\* C5 witness: the wait timed out and the server became ready afterwards.
C5_Witness == walabot_is_ready = "no" /\ ready /\ spc = "poll" /\ lastReading # Unbound

\* C6: after a failed sensor connection the server has returned without
\* binding the channel, setting the readiness flag, capturing or replying;
\* the readiness flag is set only after connection, configuration, scan
\* start, calibration start and channel bind have all completed.
C6_ConnectFailure ==
  /\ spc = "failed"
       => /\ setup = {}
          /\ ~ready
          /\ energy = Unbound /\ lastReading = Unbound
          /\ sRecv = 0 /\ sRepl = 0 /\ rep = NoReply
  /\ ready => setup = AllSetup

\* C6 witness: the connection failed and the coordinator timed out.
C6_Witness == spc = "failed" /\ cpc = "exit" /\ exitCode = 1

\* One pass of the lamp control loop is taken (it ends at the top of the
\* loop, or in the ZeroDivisionError).
LoopPass == cpc = "loop_recv" /\ cpc' # "loop_recv"

\* C7 (as claimed): at every program point of the Control Loop the length of
\* the energy log is at most the current capacity.
C7_LengthWithinCapacity == Len(energy_log) <= samples

\* C7 (amended): the energy log that a pass of the loop smooths (the log
\* after the update of lines 205-210) is no longer than the capacity with
\* which the pass began; the log is longer than the capacity only between a
\* key that lowered the capacity (space, or 'down') and the next update.
C7_LengthAtSmoothing ==
  /\ [][LoopPass => Len(energy_log') <= samples]_vars
  /\ [](Len(energy_log) > samples
          => /\ cpc \in {"loop_top", "loop_recv"}
             /\ key = 32 \/ (key = 224 /\ key2 = 80))

\* C7 witness: a pass has cut down a log that was longer than the capacity
\* (the sample of that pass is not in the log).
C7_Witness ==
  /\ cpc = "loop_top"
  /\ Len(energy_log) = samples
  /\ log_ids[Len(log_ids)] < Len(received)

\* C8: a pass that begins with a log no longer than the capacity appends the
\* new sample when the log is shorter than the capacity, and drops the
\* oldest entry and appends the new sample when the log is at capacity; the
\* entries kept stay in order and the result is no longer than the capacity.
C8_FifoUpdate ==
  [][(LoopPass /\ Len(energy_log) <= samples)
       => /\ IF Len(energy_log) < samples
             THEN /\ energy_log' = energy_log \o <<rep.val>>
                  /\ log_ids' = log_ids \o <<Len(received) + 1>>
             ELSE /\ energy_log' = SubSeq(energy_log, 2, Len(energy_log)) \o <<rep.val>>
                  /\ log_ids' = SubSeq(log_ids, 2, Len(log_ids)) \o <<Len(received) + 1>>
          /\ Len(energy_log') <= samples]_vars

\* C8 witness: the log is at capacity, its oldest entries are gone and its
\* newest entry is the sample received last.
C8_Witness ==
  /\ cpc = "loop_top"
  /\ Len(energy_log) = samples
  /\ log_ids[1] > 1
  /\ log_ids[Len(log_ids)] = Len(received)
  /\ key = -1

\* C9: a pass that begins with a log longer than the capacity (a key has
\* lowered the capacity) leaves exactly `capacity` entries, which are the
\* newest `capacity` samples received so far, in arrival order.
C9_TruncateKeepsNewest ==
  [][(LoopPass /\ Len(energy_log) > samples)
       => /\ Len(energy_log') = samples
          /\ log_ids' = [i \in 1..samples |-> Len(received') - samples + i]
          /\ energy_log' = [i \in 1..samples |-> received'[Len(received') - samples + i]]]_vars

\* The capacity after an 'up' key (224, 72) and after a 'down' key (224, 80).
PressUp(c) == KeySamples(c, 224, 72)

PressDown(c) == KeySamples(c, 224, 80)

\* C10: the capacity is 60 when the loop is entered and always in
\* [10, 250]; 'up' adds 10 up to 250, 'down' subtracts 10 down to 10, space
\* resets it to 60 and every other key leaves it as it is; three 'up' from
\* 60 give 90 and eight 'down' from 90 give 10.
C10_CapacityRange ==
  /\ PressUp(PressUp(PressUp(60))) = 90
  /\ PressDown(PressDown(PressDown(PressDown(
        PressDown(PressDown(PressDown(PressDown(90)))))))) = 10
  /\ [](samples >= 10 /\ samples <= 250)
  /\ []((cpc = "loop_top" /\ Len(received) = 5) => samples = 60)
  /\ [][(cpc = "loop_recv" /\ cpc' = "loop_top")
          => samples' = CASE key' = 224 /\ key2' = 72 ->
                               IF samples + 10 > 250 THEN 250 ELSE samples + 10
                          [] key' = 224 /\ key2' = 80 ->
                               IF samples - 10 < 10 THEN 10 ELSE samples - 10
                          [] key' = 32 -> 60
                          [] OTHER -> samples]_vars
  /\ [][cpc' # "loop_top" => samples' = samples]_vars

\* C10 witness: 'up' was pressed and the capacity is at its upper limit.
C10_Witness == cpc = "loop_top" /\ samples = 250 /\ key = 224 /\ key2 = 72

\* The brightness command of the last pass, if it sent one.
BriWritten == writes[1][2]

\* C11 (as claimed): the brightness before the red boost is
\* 195 * smoothed / max + 60 rounded to the nearest integer, so that a
\* smoothed value of 0.0004 with a maximum of 0.0008 gives 158.  Observed on
\* the passes that send the brightness with a blue hue (a boost of 0).
C11_RoundedBrightness ==
  [][(LoopPass /\ writes' # <<>> /\ hue' = 43690)
       => /\ BriWritten' = Nearest(195 * Sum3(energy_log'), 3 * MaxEnrg(energy_log')) + 60
          /\ (Sum3(energy_log') = 12 /\ MaxEnrg(energy_log') = 8) => BriWritten' = 158]_vars

\* C11 (amended): the brightness before the red boost is
\* 195 * smoothed / max + 60 with its fraction cut off, so that a smoothed
\* value of 0.0004 with a maximum of 0.0008 gives 157; the brightness sent
\* is that value plus the boost (hue - 43690) / 42, at most 255.
C11_TruncatedBrightness ==
  [][(LoopPass /\ writes' # <<>>)
       => /\ BriWritten' = Min((195 * Sum3(energy_log')) \div (3 * MaxEnrg(energy_log')) + 60
                                 + (hue' - 43690) \div 42, 255)
          /\ (Sum3(energy_log') = 12 /\ MaxEnrg(energy_log') = 8 /\ hue' = 43690)
               => BriWritten' = 157]_vars

\* C11 witness: a pass with a smoothed value of 0.0004 (three samples that
\* add up to 0.0012) and a maximum of 0.0008 has sent brightness 157.
C11_Witness ==
  /\ cpc = "loop_top"
  /\ Sum3(energy_log) = 12
  /\ MaxEnrg(energy_log) = 8
  /\ writes = << <<"bri", 157>>, <<"hue", 43690>> >>

\* C12: a pass that gets as far as the hue sets it to 65000 if more than
\* 13 seconds have passed since the last peak or the maximum of the log is
\* under 0.0002, whatever the smoothed value, and to 43690 + 1600 * (whole
\* seconds since the last peak) otherwise; the hue is always in
\* [43690, 65000].
C12_HueRule ==
  /\ [][(LoopPass /\ cpc' = "loop_top")
         => hue' = IF since' > 13 * TicksPerSecond \/ MaxEnrg(energy_log') < 2
                   THEN 65000
                   ELSE 43690 + 1600 * (since' \div TicksPerSecond)]_vars
  /\ [](hue >= 43690 /\ hue <= 65000)

\* C12 witness: a pass found a peak (brightness 255, no time since the
\* peak) and still turned the lamp red, the maximum being 0.0001.
C12_Witness ==
  /\ cpc = "loop_top"
  /\ MaxEnrg(energy_log) = 1
  /\ since = 0
  /\ writes = << <<"bri", 255>>, <<"hue", 65000>> >>

\* The brightness a pass ends with (after the red boost and the limit of
\* 255), from the log and the hue it leaves behind.
NewBri(log, h) ==
  Min((195 * Sum3(log)) \div (3 * MaxEnrg(log)) + 60 + (h - 43690) \div 42, 255)

\* C13: a pass that gets as far as the lamp sends commands if and only if
\* the new brightness differs from the brightness sent last by more than 2;
\* it then sends exactly one brightness command followed by exactly one hue
\* command and remembers the new brightness; otherwise it sends nothing and
\* the remembered brightness stays as it was.
C13_WriteSuppression ==
  [][(LoopPass /\ cpc' = "loop_top")
       => LET bri == NewBri(energy_log', hue') IN
          IF bri - prev_bri > 2 \/ prev_bri - bri > 2
          THEN /\ writes' = << <<"bri", bri>>, <<"hue", hue'>> >>
               /\ prev_bri' = bri
               /\ lamp' = [lamp EXCEPT !.bri = bri, !.hue = hue']
          ELSE /\ writes' = <<>>
               /\ prev_bri' = prev_bri
               /\ lamp' = lamp]_vars

\* C13 witness: a pass computed a brightness within 2 of the one sent last
\* but not equal to it, and sent nothing.
C13_Witness ==
  /\ cpc = "loop_top"
  /\ nGot > 5
  /\ writes = <<>>
  /\ NewBri(energy_log, hue) # prev_bri

\* C14: in every pass of the loop, whatever keys were pressed before, the
\* sample just received is the last entry of the log that the pass smooths
\* (so it is one of the three samples averaged and it counts for the
\* maximum).
C14_NewestSampleUsed ==
  [][LoopPass
       => /\ Len(energy_log') > 0
          /\ energy_log'[Len(energy_log')] = rep.val
          /\ log_ids'[Len(log_ids')] = Len(received')]_vars

\* C15: from the bootstrap on, the remembered brightness (prev_bri) is the
\* brightness most recently sent to the lamp, and at the end of every pass
\* of the loop the tracked hue is the hue most recently sent to the lamp.
C15_CacheIsWhatWasSent ==
  lamp.on => /\ prev_bri = lamp.bri
             /\ (cpc = "loop_top" /\ nGot > 5) => hue = lamp.hue

\* C16: with non-negative samples and a maximum above 0, the mean of the
\* last three samples is at most the maximum of the log, and every
\* brightness a pass of the loop sends to the lamp (and remembers) is an
\* integer from 60 to 255.
C16_BrightnessRange ==
  (nGot > 5 /\ cpc # "crashed")
    => /\ Sum3(energy_log) <= 3 * MaxEnrg(energy_log)
       /\ \A i \in 1..Len(writes) :
            writes[i][1] = "bri" => writes[i][2] \in 60..255
       /\ prev_bri \in 60..255
       /\ lamp.bri \in 60..255

\* C16 witness: a pass computed the lowest brightness (60), the red boost
\* took it over 255, and 255 was sent.
C16_Witness ==
  /\ cpc = "loop_top"
  /\ Sum3(energy_log) = 0
  /\ MaxEnrg(energy_log) > 0
  /\ hue = 65000
  /\ writes = << <<"bri", 255>>, <<"hue", 65000>> >>

\* The client is in the lamp control loop (the RUNNING state).
Running == cpc \in {"loop_top", "loop_recv"} /\ active

\* The server is in its main loop.
Capturing == spc \in {"poll", "dispatch"}

\* C17: the control loop is left only by reading the key 'q' (then the
\* client goes on to send 'stop'); once the loop is left the client sends
\* exactly one 'stop' and no 'energy' request any more; and the server
\* leaves its main loop only upon receiving 'stop'.
C17_OnlyQuitStops ==
  /\ [][(Running /\ ~Running') => (key' = 113 /\ cpc' = "loop_top")]_vars
  /\ [][(~active /\ nGot >= 5) => req' # "energy"]_vars
  /\ [][(~active /\ nGot >= 5 /\ req' = "stop" /\ req # "stop")
          => (cpc = "loop_top" /\ cpc' = "stop_recv")]_vars
  /\ [][(Capturing /\ ~Capturing') => (message = "stop" /\ spc' = "leaving")]_vars

\* C18: a request that is neither 'energy' nor 'stop' (the empty string
\* included) gets no reply and leaves the last energy reading as it was,
\* and the server stays in its main loop, in that pass and in the passes
\* after it (where it goes on capturing and answering).
C18_OtherRequestIgnored ==
  /\ [][(spc = "dispatch" /\ message \notin {"energy", "stop"})
         => /\ rep' = rep /\ sRepl' = sRepl
            /\ energy' = energy /\ lastReading' = lastReading
            /\ spc' \in {"poll", "owing"}]_vars
  /\ [][spc = "owing" => spc' \in {"poll", "owing", "dispatch"}]_vars

\* C19: whatever keys changed the capacity and whatever samples arrived, the
\* log a pass of the loop smooths holds at least 5 samples, so its last
\* three entries are three samples and the smoothed value is their mean.
C19_AtLeastFiveSamples ==
  cpc \in {"loop_top", "loop_recv", "crashed"}
    => /\ Len(energy_log) >= 5
       /\ Len(LastN(energy_log, 3)) = 3

\* C19 witness: a pass has smoothed a log held at the lowest capacity, and
\* 'down' was pressed once more.
C19_Witness ==
  /\ cpc = "loop_top"
  /\ key = 224 /\ key2 = 80
  /\ samples = 10
  /\ Len(energy_log) = 10
  /\ log_ids[10] = Len(received)

\* Every sample in the log is 0.
AllZero(log) == \A i \in 1..Len(log) : log[i] = 0

\* C20: a pass whose log holds nothing but zeros ends in the division
\* error: the control loop is over, and that pass sends nothing to the lamp
\* and leaves the remembered brightness alone; from then on the client
\* sends nothing (no 'stop' in particular) and the server stays in its main
\* loop.
C20_ZeroWindowAborts ==
  /\ [][(LoopPass /\ AllZero(energy_log'))
         => /\ cpc' = "crashed"
            /\ writes' = <<>>
            /\ lamp' = lamp /\ prev_bri' = prev_bri]_vars
  /\ [][cpc = "crashed"
         => /\ cpc' = "crashed"
            /\ req' = "none" /\ nSent' = nSent
            /\ spc' = "poll"]_vars
  /\ [](cpc = "crashed" => (AllZero(energy_log) /\ req = "none" /\ spc = "poll"))

\* C20 witness: the control loop has ended in the division error and the
\* server has captured a new reading since.
C20_Witness ==
  /\ cpc = "crashed"
  /\ AllZero(energy_log)
  /\ spc = "poll"
  /\ lastReading = 1
  /\ lamp.bri = 150

=============================================================================
